---- MODULE Spec2Model ----
(***************************************************************************)
(* Model of sigmf/archivereader.py: SigMFArchiveReader.__init__ opens a    *)
(* tar container, groups its members into recordings, loads and validates  *)
(* each recording's metadata, binds the dataset byte range and closes the  *)
(* container in a finally block.                                           *)
(*                                                                         *)
(* Strings are sequences of tokens.  The token "." is the dot, "/" the     *)
(* path separator; every other token is a run of characters holding        *)
(* neither.  TarInfo objects are referred to by their position in the      *)
(* member list, 0 standing for None.                                       *)
(***************************************************************************)
EXTENDS Integers, Sequences, FiniteSets, TLC

VARIABLES
    path,            \* argument path (None or a token sequence)
    archive_buffer,  \* argument archive_buffer (None or a buffer)
    members,         \* what tar_obj.getmembers() lists, in container order
    pc,              \* position in __init__
    tar_obj,         \* "None" (no handle), "open" or "closed"
    exc,             \* the exception propagating out of the try block
    recording,       \* the current ArchiveRecording
    recordings,      \* the flushed ArchiveRecordings
    i,               \* position of the grouping loop in members
    k,               \* position of the load loop in recordings
    sigmffile,       \* the SigMFFile under construction
    sigmffiles,      \* self.sigmffiles (None before line 65)
    extracted,       \* members handed to tar_obj.extractfile, in order
    opened,          \* number of successful tarfile.open calls
    closed,          \* number of tar_obj.close calls
    warned,          \* number of warnings.warn calls
    result,          \* what the caller of the constructor receives
    tar_source,      \* what tarfile.open was given: "path", "buffer", "none"
    view             \* the last __len__, __iter__ or __getitem__ call

vars == <<path, archive_buffer, members, pc, tar_obj, exc, recording,
          recordings, i, k, sigmffile, sigmffiles, extracted, opened,
          closed, warned, result, tar_source, view>>

\* An optional value is a sequence of at most one element.
None == <<>>

Some(x) == <<x>>

NoHandle == "None"

\* Longest member list explored.
MaxMembers == 3

-----------------------------------------------------------------------------
(* Extensions imported from sigmf.archive.                                 *)

SIGMF_ARCHIVE_EXT == <<".", "sigmf">>

SIGMF_METADATA_EXT == <<".", "sigmf", "-meta">>

SIGMF_DATASET_EXT == <<".", "sigmf", "-data">>

SIGMF_COLLECTION_EXT == <<".", "sigmf", "-collection">>

-----------------------------------------------------------------------------
(* String helpers used by the constructor.                                 *)

\* a substring test in place of the suffix test
endswith_contains(s, suffix) ==
    \E n \in 1..(Len(s) - Len(suffix) + 1) :
        SubSeq(s, n, n + Len(suffix) - 1) = suffix

\* str.endswith
endswith(s, suffix) ==
    /\ Len(suffix) <= Len(s)
    /\ SubSeq(s, Len(s) - Len(suffix) + 1, Len(s)) = suffix

\* str.rfind of a one-token needle; 0 when absent (positions are 1-based)
rfind(s, c) ==
    LET hits == {n \in 1..Len(s) : s[n] = c}
    IN  IF hits = {} THEN 0 ELSE CHOOSE n \in hits : \A m \in hits : m <= n

\* os.path.splitext(p)[0]: cut at the last dot of the last component, unless
\* that component consists of leading dots only up to it
splitext(p) ==
    LET sepIndex == rfind(p, "/")
        dotIndex == rfind(p, ".")
    IN  IF /\ dotIndex > sepIndex
           /\ \E n \in (sepIndex + 1)..(dotIndex - 1) : p[n] # "."
        THEN SubSeq(p, 1, dotIndex - 1)
        ELSE p

\* str.rstrip("/")
RECURSIVE rstripSep(_)
rstripSep(s) ==
    IF Len(s) > 0 /\ s[Len(s)] = "/"
    THEN rstripSep(SubSeq(s, 1, Len(s) - 1))
    ELSE s

\* os.path.dirname
dirname(p) ==
    LET head == SubSeq(p, 1, rfind(p, "/"))
    IN  IF head # <<>> /\ \E n \in 1..Len(head) : head[n] # "/"
        THEN rstripSep(head)
        ELSE head

-----------------------------------------------------------------------------
(* The containers explored.                                                *)

\* TarInfo values: name, type, payload size; valid tells whether the payload
\* is a metadata document that SigMFFile.validate accepts.
MemberKinds ==
    { [name |-> <<"a", ".", "sigmf", "-meta">>, type |-> "file",
       size |-> 3, valid |-> TRUE],
      [name |-> <<"d", "/", "b", ".", "sigmf", "-meta">>, type |-> "file",
       size |-> 3, valid |-> TRUE],
      [name |-> <<"d", "/", "c", ".", "sigmf", "-meta">>, type |-> "file",
       size |-> 3, valid |-> FALSE],
      [name |-> <<"a", ".", "sigmf", "-data">>, type |-> "file",
       size |-> 1, valid |-> FALSE],
      [name |-> <<"d", "/", "b", ".", "sigmf", "-data">>, type |-> "file",
       size |-> 2, valid |-> FALSE],
      [name |-> <<"d", "/", "b", ".", "sigmf", "-collection">>, type |-> "file",
       size |-> 1, valid |-> FALSE],
      [name |-> <<"a", ".", "sigmf">>, type |-> "file",
       size |-> 1, valid |-> FALSE],
      [name |-> <<"d", ".", "sigmf", "-meta">>, type |-> "dir",
       size |-> 0, valid |-> FALSE],
      [name |-> <<"l", ".", "sigmf", "-data">>, type |-> "link",
       size |-> 0, valid |-> FALSE] }

Archives == UNION {[1..n -> MemberKinds] : n \in 0..MaxMembers}

Paths ==
    { <<"a", ".", "sigmf">>,
      <<"d", "/", "a", ".", "sigmf", "-meta">>,
      <<"a", ".", "sigmf", ".", "tar">>,
      <<>> }

Buffers == {"buf"}

\* TarInfo.offset_data: payloads lie one after the other, each behind a header
RECURSIVE offset_data(_, _)
offset_data(ms, n) ==
    IF n = 1 THEN 1 ELSE offset_data(ms, n - 1) + ms[n - 1].size + 1

\* TarInfo.isdir / TarInfo.isfile
isdir(memb) == memb.type = "dir"

isfile(memb) == memb.type = "file"

\* no call made on the reader yet
NoCall == [op |-> "none", arg |-> <<>>, err |-> "none", value |-> <<>>]

\* ArchiveRecording()
ArchiveRecording == [metadata |-> 0, data |-> 0]

\* lines 68-100 as a function of the member list: the loop from member n on,
\* with cur the current recording and done the saved ones
RECURSIVE group_loop(_, _, _, _)
group_loop(ms, n, cur, done) ==
    IF n > Len(ms)
    THEN IF cur.metadata # 0 THEN Append(done, cur) ELSE done
    ELSE IF isdir(ms[n])
    THEN group_loop(ms, n + 1, cur, done)
    ELSE IF isfile(ms[n]) /\ endswith(ms[n].name, SIGMF_METADATA_EXT)
    THEN IF cur.metadata # 0
         THEN group_loop(ms, n + 1, [ArchiveRecording EXCEPT !.metadata = n],
                         Append(done, cur))
         ELSE group_loop(ms, n + 1, [cur EXCEPT !.metadata = n], done)
    ELSE IF isfile(ms[n]) /\ endswith(ms[n].name, SIGMF_DATASET_EXT)
    THEN group_loop(ms, n + 1, [cur EXCEPT !.data = n], done)
    ELSE group_loop(ms, n + 1, cur, done)

group_members(ms) == group_loop(ms, 1, ArchiveRecording, <<>>)

-----------------------------------------------------------------------------
Init ==
    /\ path \in {Some(p) : p \in Paths} \cup {None}
    /\ archive_buffer \in {Some(b) : b \in Buffers} \cup {None}
    /\ members \in Archives
    /\ pc = "start"
    /\ tar_obj = NoHandle
    /\ exc = "none"
    /\ recording = ArchiveRecording
    /\ recordings = <<>>
    /\ i = 0
    /\ k = 0
    /\ sigmffile = None
    /\ sigmffiles = None
    /\ extracted = <<>>
    /\ opened = 0
    /\ closed = 0
    /\ warned = 0
    /\ result = None
    /\ tar_source = "none"
    /\ view = NoCall

\* an exception leaves the try block: control goes to the finally clause
Raise(e) ==
    /\ exc' = e
    /\ pc' = "finally"

\* tarfile.open: a handle, or an error when the source is no readable tar
TarOpen ==
    \E ok \in BOOLEAN :
        IF ok
        THEN /\ tar_obj' = "open"
             /\ opened' = opened + 1
             /\ pc' = "members"
             /\ exc' = exc
        ELSE /\ Raise("TarError")
             /\ UNCHANGED <<tar_obj, opened>>

\* lines 48-51: a path that does not end with the archive extension
ExtensionMismatch ==
    /\ pc = "start"
    /\ path # None
    /\ ~endswith(path[1], SIGMF_ARCHIVE_EXT)
    /\ Raise("SigMFFileError")
    /\ UNCHANGED <<tar_source, view,
                   path, archive_buffer, members, tar_obj, recording,
                   recordings, i, k, sigmffile, sigmffiles, extracted,
                   opened, closed, warned, result>>

\* lines 48-53: open by path
OpenPath ==
    /\ pc = "start"
    /\ path # None
    /\ endswith(path[1], SIGMF_ARCHIVE_EXT)
    /\ TarOpen
    /\ tar_source' = IF tar_obj' = "open" THEN "path" ELSE tar_source
    /\ UNCHANGED <<view,
                   path, archive_buffer, members, recording, recordings, i, k,
                   sigmffile, sigmffiles, extracted, closed, warned, result>>

\* the buffer branch taken without testing archive_buffer
OpenBuffer_Unchecked ==
    /\ pc = "start"
    /\ path = None
    /\ TarOpen
    /\ tar_source' = IF tar_obj' = "open" THEN "buffer" ELSE tar_source
    /\ UNCHANGED <<view,
                   path, archive_buffer, members, recording, recordings, i, k,
                   sigmffile, sigmffiles, extracted, closed, warned, result>>

\* lines 55-56: open by buffer
OpenBuffer ==
    /\ pc = "start"
    /\ path = None
    /\ archive_buffer # None
    /\ TarOpen
    /\ tar_source' = IF tar_obj' = "open" THEN "buffer" ELSE tar_source
    /\ UNCHANGED <<view,
                   path, archive_buffer, members, recording, recordings, i, k,
                   sigmffile, sigmffiles, extracted, closed, warned, result>>

\* path and buffer treated as mutually exclusive
NoSource_Exclusive ==
    /\ pc = "start"
    /\ (path = None) = (archive_buffer = None)
    /\ Raise("ValueError")
    /\ UNCHANGED <<tar_source, view,
                   path, archive_buffer, members, tar_obj, recording,
                   recordings, i, k, sigmffile, sigmffiles, extracted,
                   opened, closed, warned, result>>

\* lines 58-60: neither path nor buffer
NoSource ==
    /\ pc = "start"
    /\ path = None
    /\ archive_buffer = None
    /\ Raise("ValueError")
    /\ UNCHANGED <<tar_source, view,
                   path, archive_buffer, members, tar_obj, recording,
                   recordings, i, k, sigmffile, sigmffiles, extracted,
                   opened, closed, warned, result>>

\* the container is closed as soon as its members are listed
GetMembers_CloseEarly ==
    /\ pc = "members"
    /\ sigmffiles' = Some(<<>>)
    /\ recordings' = <<>>
    /\ recording' = ArchiveRecording
    /\ tar_obj' = "closed"
    /\ closed' = closed + 1
    /\ \E ok \in BOOLEAN :
        IF ok
        THEN /\ i' = 1
             /\ pc' = "group"
             /\ exc' = exc
        ELSE /\ Raise("TarError")
             /\ i' = i
    /\ UNCHANGED <<tar_source, view, path, archive_buffer, members, k,
                   sigmffile, extracted, opened, warned, result>>

\* lines 62-69: the locals, and tar_obj.getmembers(), which reads the whole
\* container and fails on a damaged one
GetMembers ==
    /\ pc = "members"
    /\ sigmffiles' = Some(<<>>)
    /\ recordings' = <<>>
    /\ recording' = ArchiveRecording
    /\ \E ok \in BOOLEAN :
        IF ok
        THEN /\ i' = 1
             /\ pc' = "group"
             /\ exc' = exc
        ELSE /\ Raise("TarError")
             /\ i' = i
    /\ UNCHANGED <<tar_source, view,
                   path, archive_buffer, members, tar_obj, k, sigmffile,
                   extracted, opened, closed, warned, result>>

InLoop == pc = "group" /\ i <= Len(members)

NextMember ==
    /\ i' = i + 1
    /\ UNCHANGED <<tar_source, view,
                   path, archive_buffer, members, pc, tar_obj, exc, k,
                   sigmffile, sigmffiles, extracted, opened, closed, warned,
                   result>>

\* lines 70-73
SkipDirectory ==
    /\ InLoop
    /\ isdir(members[i])
    /\ NextMember
    /\ UNCHANGED <<recording, recordings>>

\* the previous recording is overwritten instead of saved
TakeMetadata_NoFlush ==
    /\ InLoop
    /\ ~isdir(members[i])
    /\ isfile(members[i])
    /\ endswith(members[i].name, SIGMF_METADATA_EXT)
    /\ recordings' = recordings
    /\ recording' = [recording EXCEPT !.metadata = i]
    /\ NextMember

\* lines 75-81
TakeMetadata ==
    /\ InLoop
    /\ ~isdir(members[i])
    /\ isfile(members[i])
    /\ endswith(members[i].name, SIGMF_METADATA_EXT)
    /\ IF recording.metadata # 0
       THEN /\ recordings' = Append(recordings, recording)
            /\ recording' = [ArchiveRecording EXCEPT !.metadata = i]
       ELSE /\ recordings' = recordings
            /\ recording' = [recording EXCEPT !.metadata = i]
    /\ NextMember

\* a group that has a dataset keeps it
TakeDataset_KeepFirst ==
    /\ InLoop
    /\ ~isdir(members[i])
    /\ isfile(members[i])
    /\ ~endswith(members[i].name, SIGMF_METADATA_EXT)
    /\ endswith(members[i].name, SIGMF_DATASET_EXT)
    /\ recording' = IF recording.data = 0
                    THEN [recording EXCEPT !.data = i]
                    ELSE recording
    /\ recordings' = recordings
    /\ NextMember

\* the entry is stored in the group flushed last
TakeDataset_AttachToLast ==
    /\ InLoop
    /\ ~isdir(members[i])
    /\ isfile(members[i])
    /\ ~endswith(members[i].name, SIGMF_METADATA_EXT)
    /\ endswith(members[i].name, SIGMF_DATASET_EXT)
    /\ IF recordings # <<>>
       THEN /\ recordings' = [recordings EXCEPT ![Len(recordings)].data = i]
            /\ recording' = recording
       ELSE /\ recordings' = recordings
            /\ recording' = [recording EXCEPT !.data = i]
    /\ NextMember

\* lines 82-83
TakeDataset ==
    /\ InLoop
    /\ ~isdir(members[i])
    /\ isfile(members[i])
    /\ ~endswith(members[i].name, SIGMF_METADATA_EXT)
    /\ endswith(members[i].name, SIGMF_DATASET_EXT)
    /\ recording' = [recording EXCEPT !.data = i]
    /\ recordings' = recordings
    /\ NextMember

\* a Collection entry is rejected instead of reported
ReportCollection_Raises ==
    /\ InLoop
    /\ ~isdir(members[i])
    /\ isfile(members[i])
    /\ ~endswith(members[i].name, SIGMF_METADATA_EXT)
    /\ ~endswith(members[i].name, SIGMF_DATASET_EXT)
    /\ endswith(members[i].name, SIGMF_COLLECTION_EXT)
    /\ Raise("SigMFFileError")
    /\ UNCHANGED <<tar_source, view,
                   path, archive_buffer, members, tar_obj, recording,
                   recordings, i, k, sigmffile, sigmffiles, extracted,
                   opened, closed, warned, result>>

\* lines 84-87
ReportCollection ==
    /\ InLoop
    /\ ~isdir(members[i])
    /\ isfile(members[i])
    /\ ~endswith(members[i].name, SIGMF_METADATA_EXT)
    /\ ~endswith(members[i].name, SIGMF_DATASET_EXT)
    /\ endswith(members[i].name, SIGMF_COLLECTION_EXT)
    /\ NextMember
    /\ UNCHANGED <<recording, recordings>>

\* lines 88-91
ReportIgnoredFile ==
    /\ InLoop
    /\ ~isdir(members[i])
    /\ isfile(members[i])
    /\ ~endswith(members[i].name, SIGMF_METADATA_EXT)
    /\ ~endswith(members[i].name, SIGMF_DATASET_EXT)
    /\ ~endswith(members[i].name, SIGMF_COLLECTION_EXT)
    /\ NextMember
    /\ UNCHANGED <<recording, recordings>>

\* lines 92-97
ReportOtherType ==
    /\ InLoop
    /\ ~isdir(members[i])
    /\ ~isfile(members[i])
    /\ NextMember
    /\ UNCHANGED <<recording, recordings>>

\* the final recording is saved without looking at its metadata
FinalFlush_Unconditional ==
    /\ pc = "group"
    /\ i > Len(members)
    /\ recordings' = Append(recordings, recording)
    /\ k' = 1
    /\ pc' = "load"
    /\ UNCHANGED <<tar_source, view,
                   path, archive_buffer, members, tar_obj, exc, recording, i,
                   sigmffile, sigmffiles, extracted, opened, closed, warned,
                   result>>

\* lines 99-100: after the loop, save the final recording
FinalFlush ==
    /\ pc = "group"
    /\ i > Len(members)
    /\ recordings' = IF recording.metadata # 0
                     THEN Append(recordings, recording)
                     ELSE recordings
    /\ k' = 1
    /\ pc' = "load"
    /\ UNCHANGED <<tar_source, view,
                   path, archive_buffer, members, tar_obj, exc, recording, i,
                   sigmffile, sigmffiles, extracted, opened, closed, warned,
                   result>>

\* the data file is handed to the SigMFFile constructor, before validate()
LoadMetadata_BindsEagerly ==
    /\ pc = "load"
    /\ k <= Len(recordings)
    /\ LET metadata == recordings[k].metadata
           data == recordings[k].data
           sigmffile_name == dirname(splitext(members[metadata].name))
           json_contents == [entry |-> metadata,
                             valid |-> members[metadata].valid]
       IN  /\ extracted' = Append(extracted, metadata)
           /\ sigmffile' = Some([name |-> sigmffile_name,
                                 metadata |-> json_contents,
                                 data |-> IF data = 0 THEN None ELSE
                                   Some([data_file |-> path,
                                         data_buffer |-> archive_buffer,
                                         offset |-> offset_data(members, data),
                                         size_bytes |-> members[data].size])])
    /\ recording' = recordings[k]
    /\ pc' = "validate"
    /\ UNCHANGED <<tar_source, view,
                   path, archive_buffer, members, tar_obj, exc, recordings, i,
                   k, sigmffiles, opened, closed, warned, result>>

\* lines 103-110: name, tar_obj.extractfile(metadata).read(), SigMFFile(...)
LoadMetadata ==
    /\ pc = "load"
    /\ k <= Len(recordings)
    /\ LET metadata == recordings[k].metadata
           sigmffile_name == dirname(splitext(members[metadata].name))
           json_contents == [entry |-> metadata,
                             valid |-> members[metadata].valid]
       IN  /\ extracted' = Append(extracted, metadata)
           /\ sigmffile' = Some([name |-> sigmffile_name,
                                 metadata |-> json_contents,
                                 data |-> None])
    /\ recording' = recordings[k]
    /\ pc' = "validate"
    /\ UNCHANGED <<tar_source, view,
                   path, archive_buffer, members, tar_obj, exc, recordings, i,
                   k, sigmffiles, opened, closed, warned, result>>

\* an invalid recording is dropped and the loop goes on
Validate_SkipInvalid ==
    /\ pc = "validate"
    /\ IF sigmffile[1].metadata.valid
       THEN /\ pc' = "bind"
            /\ k' = k
       ELSE /\ pc' = "load"
            /\ k' = k + 1
    /\ UNCHANGED <<tar_source, view,
                   path, archive_buffer, members, tar_obj, exc, recording,
                   recordings, i, sigmffile, sigmffiles, extracted, opened,
                   closed, warned, result>>

\* line 112: sigmffile.validate()
Validate ==
    /\ pc = "validate"
    /\ IF sigmffile[1].metadata.valid
       THEN /\ pc' = "bind"
            /\ exc' = exc
       ELSE Raise("ValidationError")
    /\ UNCHANGED <<tar_source, view,
                   path, archive_buffer, members, tar_obj, recording,
                   recordings, i, k, sigmffile, sigmffiles, extracted, opened,
                   closed, warned, result>>

\* offset and size handed over in the wrong order
BindDataset_Swapped ==
    /\ pc = "bind"
    /\ LET data == recording.data
       IN  sigmffile' =
             IF data # 0
             THEN Some([sigmffile[1] EXCEPT !.data =
                     Some([data_file |-> path,
                           data_buffer |-> archive_buffer,
                           offset |-> members[data].size,
                           size_bytes |-> offset_data(members, data)])])
             ELSE sigmffile
    /\ pc' = "append"
    /\ UNCHANGED <<tar_source, view,
                   path, archive_buffer, members, tar_obj, exc, recording,
                   recordings, i, k, sigmffiles, extracted, opened, closed,
                   warned, result>>

\* lines 113-121: sigmffile.set_data_file(...) when the recording has data
BindDataset ==
    /\ pc = "bind"
    /\ LET data == recording.data
       IN  sigmffile' =
             IF data # 0
             THEN Some([sigmffile[1] EXCEPT !.data =
                     Some([data_file |-> path,
                           data_buffer |-> archive_buffer,
                           offset |-> offset_data(members, data),
                           size_bytes |-> members[data].size])])
             ELSE sigmffile
    /\ pc' = "append"
    /\ UNCHANGED <<tar_source, view,
                   path, archive_buffer, members, tar_obj, exc, recording,
                   recordings, i, k, sigmffiles, extracted, opened, closed,
                   warned, result>>

\* line 123
AppendFile ==
    /\ pc = "append"
    /\ sigmffiles' = Some(Append(sigmffiles[1], sigmffile[1]))
    /\ k' = k + 1
    /\ pc' = "load"
    /\ UNCHANGED <<tar_source, view,
                   path, archive_buffer, members, tar_obj, exc, recording,
                   recordings, i, sigmffile, extracted, opened, closed, warned,
                   result>>

\* all() in place of any(): warns as soon as one recording has no data
WarnNoDataset_NotAll ==
    /\ pc = "load"
    /\ k > Len(recordings)
    /\ warned' = IF \E r \in 1..Len(recordings) : recordings[r].data = 0
                 THEN warned + 1
                 ELSE warned
    /\ pc' = "finally"
    /\ UNCHANGED <<tar_source, view,
                   path, archive_buffer, members, tar_obj, exc, recording,
                   recordings, i, k, sigmffile, sigmffiles, extracted, opened,
                   closed, result>>

\* lines 125-127
WarnNoDataset ==
    /\ pc = "load"
    /\ k > Len(recordings)
    /\ warned' = IF \A r \in 1..Len(recordings) : recordings[r].data = 0
                 THEN warned + 1
                 ELSE warned
    /\ pc' = "finally"
    /\ UNCHANGED <<tar_source, view,
                   path, archive_buffer, members, tar_obj, exc, recording,
                   recordings, i, k, sigmffile, sigmffiles, extracted, opened,
                   closed, result>>

\* close at the end of the try block instead of in a finally clause
Finally_CloseOnSuccess ==
    /\ pc = "finally"
    /\ IF tar_obj # NoHandle /\ exc = "none"
       THEN /\ tar_obj' = "closed"
            /\ closed' = closed + 1
       ELSE UNCHANGED <<tar_obj, closed>>
    /\ result' = IF exc = "none" THEN sigmffiles ELSE None
    /\ pc' = "done"
    /\ UNCHANGED <<tar_source, view,
                   path, archive_buffer, members, exc, recording, recordings,
                   i, k, sigmffile, sigmffiles, extracted, opened, warned>>

\* lines 128-130, then the constructor returns the reader or re-raises
Finally ==
    /\ pc = "finally"
    /\ IF tar_obj # NoHandle
       THEN /\ tar_obj' = "closed"
            /\ closed' = closed + 1
       ELSE UNCHANGED <<tar_obj, closed>>
    /\ result' = IF exc = "none" THEN sigmffiles ELSE None
    /\ pc' = "done"
    /\ UNCHANGED <<tar_source, view,
                   path, archive_buffer, members, exc, recording, recordings,
                   i, k, sigmffile, sigmffiles, extracted, opened, warned>>

\* the reader exists once the constructor has returned
Constructed == pc = "done" /\ exc = "none"

Query(v) ==
    /\ Constructed
    /\ view' = v
    /\ UNCHANGED <<path, archive_buffer, members, pc, tar_obj, exc, recording,
                   recordings, i, k, sigmffile, sigmffiles, extracted, opened,
                   closed, warned, result, tar_source>>

\* lines 132-133: __len__
CallLen ==
    Query([op |-> "len", arg |-> <<>>, err |-> "none",
           value |-> <<Len(sigmffiles[1])>>])

\* lines 135-136: __iter__, the values the list iterator yields
CallIter ==
    Query([op |-> "iter", arg |-> <<>>, err |-> "none",
           value |-> sigmffiles[1]])

\* list.__getitem__ with an integer: negative indices count from the end
list_getitem(l, idx) ==
    LET pos == IF idx < 0 THEN idx + Len(l) ELSE idx
    IN  IF pos < 0 \/ pos >= Len(l)
        THEN [err |-> "IndexError", value |-> <<>>]
        ELSE [err |-> "none", value |-> <<l[pos + 1]>>]

\* list.__getitem__ with slice(lo, hi), 0 <= lo, 0 <= hi
list_getslice(l, lo, hi) ==
    LET stop == IF hi > Len(l) THEN Len(l) ELSE hi
    IN  IF lo >= stop THEN <<>> ELSE SubSeq(l, lo + 1, stop)

\* popping the element instead of reading it
CallGetItem_Pop ==
    /\ Constructed
    /\ \E idx \in 0..(Len(sigmffiles[1]) - 1) :
        /\ view' = [op |-> "getitem", arg |-> <<idx>>, err |-> "none",
                    value |-> <<sigmffiles[1][idx + 1]>>]
        /\ sigmffiles' = Some([n \in 1..(Len(sigmffiles[1]) - 1) |->
                                 IF n <= idx THEN sigmffiles[1][n]
                                 ELSE sigmffiles[1][n + 1]])
    /\ UNCHANGED <<path, archive_buffer, members, pc, tar_obj, exc, recording,
                   recordings, i, k, sigmffile, extracted, opened,
                   closed, warned, result, tar_source>>

\* lines 138-139: __getitem__ with an integer index
CallGetItem ==
    /\ Constructed
    /\ \E idx \in (0 - Len(sigmffiles[1]) - 1)..Len(sigmffiles[1]) :
        LET r == list_getitem(sigmffiles[1], idx)
        IN  Query([op |-> "getitem", arg |-> <<idx>>, err |-> r.err,
                   value |-> r.value])

\* lines 138-139: __getitem__ with a slice
CallGetSlice ==
    /\ Constructed
    /\ \E lo \in 0..Len(sigmffiles[1]), hi \in 0..(Len(sigmffiles[1]) + 1) :
        Query([op |-> "getslice", arg |-> <<lo, hi>>, err |-> "none",
               value |-> list_getslice(sigmffiles[1], lo, hi)])

Next ==
    \/ ExtensionMismatch
    \/ OpenPath
    \/ OpenBuffer
    \/ NoSource
    \/ GetMembers
    \/ SkipDirectory
    \/ TakeMetadata
    \/ TakeDataset
    \/ ReportCollection
    \/ ReportIgnoredFile
    \/ ReportOtherType
    \/ FinalFlush
    \/ LoadMetadata
    \/ Validate
    \/ BindDataset
    \/ AppendFile
    \/ WarnNoDataset
    \/ Finally
    \/ CallLen
    \/ CallIter
    \/ CallGetItem
    \/ CallGetSlice

Spec == Init /\ [][Next]_vars

-----------------------------------------------------------------------------
(* Vocabulary of the properties, stated on the container and not on the    *)
(* constructor's own helpers.                                              *)

\* the member at position n is a regular file with the metadata suffix
IsMetadataEntry(n) ==
    LET nm == members[n].name
    IN  /\ members[n].type = "file"
        /\ Len(nm) >= 3
        /\ nm[Len(nm) - 2] = "." /\ nm[Len(nm) - 1] = "sigmf"
        /\ nm[Len(nm)] = "-meta"

\* the member at position n is a regular file with the dataset suffix
IsDatasetEntry(n) ==
    LET nm == members[n].name
    IN  /\ members[n].type = "file"
        /\ Len(nm) >= 3
        /\ nm[Len(nm) - 2] = "." /\ nm[Len(nm) - 1] = "sigmf"
        /\ nm[Len(nm)] = "-data"

MetadataPositions == {n \in 1..Len(members) : IsMetadataEntry(n)}

\* position of the j-th Metadata entry in container order
NthMetadata(j) ==
    CHOOSE n \in MetadataPositions :
        Cardinality({m \in MetadataPositions : m < n}) = j - 1

AllMetadataValid == \A n \in MetadataPositions : members[n].valid

\* errors raised while selecting and reading the container
SourceErrors == {"ValueError", "SigMFFileError", "TarError"}

Returned == pc = "done" /\ exc = "none"

Grouped == pc \in {"load", "validate", "bind", "append", "finally", "done"}
           /\ exc \notin SourceErrors

\* C1: with N regular-file Metadata entries that all validate, the groups
\* flushed are exactly the N Metadata entries in container order, and open
\* returns N recordings, the j-th built from the j-th Metadata entry.
C1_OneRecordingPerMetadata ==
    /\ Grouped =>
         /\ Len(recordings) = Cardinality(MetadataPositions)
         /\ \A j \in 1..Len(recordings) :
                recordings[j].metadata = NthMetadata(j)
    /\ (pc = "done" /\ exc \notin SourceErrors /\ AllMetadataValid) =>
         /\ exc = "none"
         /\ result # None
         /\ Len(result[1]) = Cardinality(MetadataPositions)
         /\ \A j \in 1..Len(result[1]) :
                result[1][j].metadata.entry = NthMetadata(j)

C1_Witness ==
    /\ Returned
    /\ AllMetadataValid
    /\ Cardinality(MetadataPositions) >= 2
    /\ Len(result[1]) >= 2

\* C2: in the result a recording whose Metadata entry is immediately followed
\* by a Dataset entry has a dataset reference, and a recording whose Metadata
\* entry is followed by another Metadata entry with no Dataset entry in
\* between has none.
C2_DatasetIffFollowed ==
    Returned =>
        \A j \in 1..Len(result[1]) :
            LET m == result[1][j].metadata.entry
            IN  /\ (m < Len(members) /\ IsDatasetEntry(m + 1))
                     => result[1][j].data # None
                /\ (\E m2 \in MetadataPositions :
                        /\ m2 > m
                        /\ \A d \in (m + 1)..(m2 - 1) : ~IsDatasetEntry(d))
                     => result[1][j].data = None

\* C3: grouping never attaches a Dataset entry to a recording whose Metadata
\* entry has not been seen: a bound dataset lies later in the container than
\* the recording's own Metadata entry, in the current group and in every
\* flushed one.
C3_DatasetAfterMetadata ==
    /\ recording.data # 0 =>
         (recording.metadata # 0 /\ recording.metadata < recording.data)
    /\ \A j \in 1..Len(recordings) :
         recordings[j].data # 0 =>
             recordings[j].metadata < recordings[j].data

\* the path with the metadata suffix and the leading directories removed
LogicalName(nm) ==
    LET stem == SubSeq(nm, 1, Len(nm) - 3)
        seps == {n \in 1..Len(stem) : stem[n] = "/"}
        from == IF seps = {} THEN 1
                ELSE 1 + CHOOSE n \in seps : \A m \in seps : m <= n
    IN  SubSeq(stem, from, Len(stem))

\* C4: the name of each recording is its Metadata entry's path without the
\* metadata suffix and without the leading directory components.
C4_NameIsStem ==
    sigmffiles # None =>
        \A j \in 1..Len(sigmffiles[1]) :
            sigmffiles[1][j].name =
                LogicalName(members[sigmffiles[1][j].metadata.entry].name)

\* C5: a container handle that was opened is closed exactly once on every
\* exit path, never twice, and no close is attempted when open fails before
\* a handle was acquired.
C5_ClosedExactlyOnce ==
    /\ closed <= opened
    /\ opened <= 1
    /\ pc = "done" =>
         /\ closed = opened
         /\ tar_obj = IF opened = 1 THEN "closed" ELSE NoHandle
    /\ (pc = "done" /\ exc \in {"ValueError", "SigMFFileError"}) =>
         (opened = 0 /\ closed = 0)

C5_Witness ==
    /\ pc = "done"
    /\ exc = "ValidationError"
    /\ opened = 1
    /\ closed = 1

\* C6: when the metadata of some recording fails validation, open fails with
\* the validation error, the caller receives no recordings, no invalid
\* recording is ever appended, and the handle is released.
C6_ValidationFailureAborts ==
    /\ sigmffiles # None =>
         \A j \in 1..Len(sigmffiles[1]) : sigmffiles[1][j].metadata.valid
    /\ (pc = "done" /\ exc \notin SourceErrors /\ ~AllMetadataValid) =>
         /\ exc = "ValidationError"
         /\ result = None
         /\ tar_obj = "closed"
         /\ closed = 1

C6_Witness ==
    /\ pc = "done"
    /\ exc = "ValidationError"
    /\ Len(sigmffiles[1]) >= 1
    /\ result = None
    /\ tar_obj = "closed"

\* C7: open with neither path nor buffer fails at once with the usage error:
\* no handle is opened, no entry is classified or read, no list is produced.
C7_NoSourceIsUsageError ==
    (path = None /\ archive_buffer = None) =>
        /\ pc \in {"start", "finally", "done"}
        /\ pc # "start" => exc = "ValueError"
        /\ opened = 0
        /\ tar_obj = NoHandle
        /\ i = 0
        /\ extracted = <<>>
        /\ recordings = <<>>
        /\ sigmffiles = None
        /\ result = None

C7_Witness ==
    /\ path = None
    /\ archive_buffer = None
    /\ pc = "done"
    /\ exc = "ValueError"

\* the path ends with the archive extension
HasArchiveExtension(p) ==
    /\ Len(p) >= 2
    /\ p[Len(p) - 1] = "."
    /\ p[Len(p)] = "sigmf"

\* C8: open by path fails with the format error, before the container is
\* opened and before any entry is read, whenever the path does not end with
\* the archive extension; open by buffer only never fails with it.
C8_ExtensionChecked ==
    /\ (path # None /\ ~HasArchiveExtension(path[1])) =>
         /\ pc \in {"start", "finally", "done"}
         /\ pc # "start" => exc = "SigMFFileError"
         /\ opened = 0
         /\ i = 0
         /\ extracted = <<>>
    /\ (path # None /\ HasArchiveExtension(path[1])) => exc # "SigMFFileError"
    /\ (path = None /\ archive_buffer # None) => exc # "SigMFFileError"

C8_Witness ==
    /\ path # None
    /\ ~HasArchiveExtension(path[1])
    /\ pc = "done"
    /\ exc = "SigMFFileError"

\* C9: a successful open has emitted exactly one no-dataset warning when no
\* recording of the result carries a dataset reference (a metadata-only or
\* an empty archive included) and none otherwise; an open whose metadata all
\* validates does not fail once the members are read, warning or not.
C9_WarningIffNoDataset ==
    /\ warned <= 1
    /\ Returned =>
         warned = IF \A j \in 1..Len(result[1]) : result[1][j].data = None
                  THEN 1 ELSE 0
    /\ (pc = "done" /\ warned = 1) => exc = "none"
    /\ (pc = "done" /\ exc \notin SourceErrors /\ AllMetadataValid) =>
         exc = "none"

C9_Witness ==
    /\ Returned
    /\ warned = 1
    /\ Len(result[1]) >= 1

\* C10: the byte range bound to a recording is the payload offset and size
\* of the Dataset entry grouped with it, and the only members extracted from
\* the container are the Metadata entries of flushed recordings.
C10_RangeOfGroupedDataset ==
    /\ sigmffiles # None =>
         \A j \in 1..Len(sigmffiles[1]) :
             LET d == recordings[j].data
                 f == sigmffiles[1][j]
             IN  /\ f.data # None <=> d # 0
                 /\ f.data # None =>
                      /\ IsDatasetEntry(d)
                      /\ f.data[1].offset = offset_data(members, d)
                      /\ f.data[1].size_bytes = members[d].size
    /\ Len(extracted) <= Len(recordings)
    /\ \A e \in 1..Len(extracted) :
         /\ extracted[e] = recordings[e].metadata
         /\ IsMetadataEntry(extracted[e])

C10_Witness ==
    /\ Returned
    /\ Len(extracted) >= 2
    /\ \E j \in 1..Len(result[1]) :
         /\ result[1][j].data # None
         /\ result[1][j].data[1].size_bytes = 2

\* the recordings of a reader, each named by the Metadata entry it was built
\* from
EntriesOf(files) == [j \in 1..Len(files) |-> files[j].metadata.entry]

MetadataOrder ==
    [j \in 1..Cardinality(MetadataPositions) |-> NthMetadata(j)]

\* C11: on a constructed reader, len is the number of recordings, iteration
\* yields them in metadata-entry order, index n (counted from 0, or from the
\* end when negative) returns the n-th of them, a slice the matching run, and
\* none of these calls changes the recordings the constructor returned.
C11_ReadOnlyViews ==
    LET n == Cardinality(MetadataPositions)
    IN  /\ Constructed => sigmffiles = result
        /\ view.op = "len" => view.value = <<n>>
        /\ view.op = "iter" => EntriesOf(view.value) = MetadataOrder
        /\ view.op = "getitem" =>
             LET idx == view.arg[1]
             IN  /\ (0 <= idx /\ idx < n) =>
                      /\ view.err = "none"
                      /\ EntriesOf(view.value) = <<NthMetadata(idx + 1)>>
                 /\ (0 - n <= idx /\ idx < 0) =>
                      /\ view.err = "none"
                      /\ EntriesOf(view.value) = <<NthMetadata(n + idx + 1)>>
                 /\ (idx >= n \/ idx < 0 - n) =>
                      /\ view.err = "IndexError"
                      /\ view.value = <<>>
        /\ view.op = "getslice" =>
             LET lo == view.arg[1]
                 hi == view.arg[2]
             IN  /\ Len(view.value) <= n
                 /\ \A j \in 1..n :
                      (lo < j /\ j <= hi) <=>
                          \E m \in 1..Len(view.value) :
                              /\ m = j - lo
                              /\ view.value[m].metadata.entry = NthMetadata(j)

C11_Witness ==
    /\ Constructed
    /\ Len(result[1]) >= 2
    /\ view.op = "getitem"
    /\ view.arg = <<1>>
    /\ view.err = "none"

\* C12: the list of flushed groups only grows, by appending the current
\* group as it stands; no step of any kind changes a group already flushed.
C12_FlushedGroupsFrozen ==
    [][ /\ Len(recordings') >= Len(recordings)
        /\ \A j \in 1..Len(recordings) : recordings'[j] = recordings[j]
        /\ \/ recordings' = recordings
           \/ recordings' = Append(recordings, recording) ]_vars

C12_Witness ==
    /\ pc = "group"
    /\ Len(recordings) >= 1
    /\ i > 1
    /\ IsDatasetEntry(i - 1)
    /\ recording.data = i - 1

\* an entry that is neither a regular-file Metadata nor a regular-file
\* Dataset entry: directory, Collection, unrecognized suffix, other type
IsInertEntry(n) == ~IsMetadataEntry(n) /\ ~IsDatasetEntry(n)

\* the member list without its inert entries
RECURSIVE WithoutInert(_)
WithoutInert(n) ==
    IF n = 0 THEN <<>>
    ELSE IF IsInertEntry(n) THEN WithoutInert(n - 1)
    ELSE Append(WithoutInert(n - 1), members[n])

\* the groups as pairs of entries rather than of positions
GroupedEntries(ms) ==
    LET g == group_members(ms)
    IN  [j \in 1..Len(g) |->
            [metadata |-> ms[g[j].metadata],
             data |-> IF g[j].data = 0 THEN None ELSE Some(ms[g[j].data])]]

\* C13: processing a directory, Collection, unrecognized or other-type entry
\* changes neither the current group nor the flushed list and raises
\* nothing, and the groups formed from a member list are those formed from
\* the same list without such entries.
C13_InertEntries ==
    /\ [][ (pc = "group" /\ i <= Len(members) /\ IsInertEntry(i)) =>
             /\ recording' = recording
             /\ recordings' = recordings
             /\ exc' = exc
             /\ pc' = "group"
             /\ i' = i + 1 ]_vars
    /\ [](Grouped => recordings = group_members(members))
    /\ [](pc = "start" =>
            GroupedEntries(members) = GroupedEntries(WithoutInert(Len(members))))

C13_Witness ==
    /\ Returned
    /\ Len(result[1]) >= 1
    /\ \E n \in 1..Len(members) : members[n].type = "dir"
    /\ \E n \in 1..Len(members) : IsInertEntry(n) /\ members[n].type = "file"

\* C14: every flushed group has a Metadata entry as its metadata and at most
\* one entry, a Dataset entry, as its data; during the pass the current
\* group has metadata exactly when a Metadata entry has been processed; a
\* group without metadata is never flushed, at end of input either.
C14_GroupsHaveMetadata ==
    /\ \A j \in 1..Len(recordings) :
         /\ recordings[j].metadata # 0
         /\ IsMetadataEntry(recordings[j].metadata)
         /\ recordings[j].data # 0 => IsDatasetEntry(recordings[j].data)
    /\ pc = "group" =>
         (recording.metadata # 0 <=>
              \E n \in 1..(i - 1) : IsMetadataEntry(n))
    /\ (Grouped /\ MetadataPositions = {}) => recordings = <<>>

C14_Witness ==
    /\ pc = "load"
    /\ recordings = <<>>
    /\ recording.metadata = 0
    /\ recording.data # 0

\* C15: the load loop takes the recordings in output order and, for each,
\* reads the metadata, validates, binds the dataset and appends, in that
\* order: nothing is appended before it validated, and no dataset is bound
\* for a recording that failed validation or comes after one that did.
C15_LoadOrder ==
    /\ pc = "load" =>
         (Len(extracted) = k - 1 /\ Len(sigmffiles[1]) = k - 1)
    /\ pc \in {"validate", "bind", "append"} =>
         /\ Len(extracted) = k
         /\ Len(sigmffiles[1]) = k - 1
         /\ extracted[k] = recordings[k].metadata
         /\ sigmffile[1].metadata.entry = recordings[k].metadata
    /\ pc \in {"validate", "bind"} => sigmffile[1].data = None
    /\ pc \in {"bind", "append"} => sigmffile[1].metadata.valid
    /\ pc = "append" => (sigmffile[1].data # None <=> recordings[k].data # 0)
    /\ sigmffiles # None =>
         \A j \in 1..Len(sigmffiles[1]) :
             /\ sigmffiles[1][j].metadata.entry = recordings[j].metadata
             /\ sigmffiles[1][j].metadata.valid
    /\ exc = "ValidationError" =>
         /\ ~sigmffile[1].metadata.valid
         /\ sigmffile[1].data = None
         /\ Len(extracted) = k
         /\ Len(sigmffiles[1]) = k - 1
         /\ \A j \in 1..(k - 1) : members[recordings[j].metadata].valid

C15_Witness ==
    /\ pc = "done"
    /\ exc = "ValidationError"
    /\ k = 2
    /\ Len(recordings) = 2
    /\ recordings[2].data # 0
    /\ Len(sigmffiles[1]) = 1

\* the last Dataset entry strictly between positions lo and hi, 0 if none
LastDatasetBetween(lo, hi) ==
    LET ds == {d \in (lo + 1)..(hi - 1) : IsDatasetEntry(d)}
    IN  IF ds = {} THEN 0 ELSE CHOOSE d \in ds : \A e \in ds : e <= d

\* the Dataset entry of the j-th of n recordings: the last one after its
\* Metadata entry (after the start, for the first) and before the next
\* Metadata entry (before the end, for the last)
WindowDataset(j, n) ==
    LastDatasetBetween(IF j = 1 THEN 0 ELSE NthMetadata(j),
                       IF j = n THEN Len(members) + 1 ELSE NthMetadata(j + 1))

\* C16: orphan and repeated Dataset entries never make open fail, and each
\* recording gets the last Dataset entry of its window, none when the window
\* holds no Dataset entry.
C16_LastDatasetOfWindow ==
    LET n == Cardinality(MetadataPositions)
    IN  /\ pc = "group" => exc = "none"
        /\ Grouped =>
             /\ Len(recordings) = n
             /\ \A j \in 1..n : recordings[j].data = WindowDataset(j, n)
        /\ (pc = "done" /\ exc \notin SourceErrors /\ AllMetadataValid) =>
             /\ Returned
             /\ Len(result[1]) = n
             /\ \A j \in 1..n :
                  LET d == WindowDataset(j, n)
                  IN  IF d = 0 THEN result[1][j].data = None
                      ELSE /\ result[1][j].data # None
                           /\ result[1][j].data[1].offset =
                                  offset_data(members, d)

C16_Witness ==
    /\ Returned
    /\ Len(members) = 3
    /\ IsDatasetEntry(1)
    /\ IsMetadataEntry(2)
    /\ IsDatasetEntry(3)
    /\ recordings[1].data = 3
    /\ result[1][1].data # None

\* C17: members are listed and extracted only while the container handle is
\* open, and nothing is read from it once it is closed or the constructor
\* has finished.
C17_NoUseAfterClose ==
    [][ /\ extracted' # extracted => (tar_obj = "open" /\ tar_obj' = "open")
        /\ i' # i => tar_obj = "open"
        /\ pc = "members" => tar_obj = "open"
        /\ (tar_obj = "closed" \/ pc = "done") =>
             (extracted' = extracted /\ i' = i /\ tar_obj' = tar_obj) ]_vars

C17_Witness ==
    /\ pc = "done"
    /\ tar_obj = "closed"
    /\ Len(extracted) >= 2
    /\ view.op = "iter"

\* C18: with both a path and a buffer there is no usage error; the extension
\* check applies to the path, the container is opened from the path, and the
\* buffer is only passed on as data buffer when a dataset is bound.
C18_PathTakesPrecedence ==
    (path # None /\ archive_buffer # None) =>
        /\ exc # "ValueError"
        /\ tar_source \in {"none", "path"}
        /\ opened = 1 => tar_source = "path"
        /\ ~HasArchiveExtension(path[1]) =>
             /\ opened = 0
             /\ pc # "start" => exc = "SigMFFileError"
        /\ HasArchiveExtension(path[1]) => exc # "SigMFFileError"
        /\ (HasArchiveExtension(path[1]) /\ pc = "done" /\ exc # "TarError")
             => opened = 1
        /\ sigmffiles # None =>
             \A j \in 1..Len(sigmffiles[1]) :
                 sigmffiles[1][j].data # None =>
                     /\ sigmffiles[1][j].data[1].data_file = path
                     /\ sigmffiles[1][j].data[1].data_buffer = archive_buffer

C18_Witness ==
    /\ path # None
    /\ archive_buffer # None
    /\ Returned
    /\ tar_source = "path"
    /\ \E j \in 1..Len(result[1]) : result[1][j].data # None

====
